---- MODULE Spec2Model ----
(***************************************************************************)
(* The knowledge-base inference engine of minesweeper.py: the Sentence     *)
(* class, the MinesweeperAI controller and the part of the Minesweeper     *)
(* board the controller's observations come from.                          *)
(*                                                                         *)
(* Cells are pairs <<row, column>> with the 0-based coordinates of the     *)
(* source.  The knowledge list is a sequence of records [cells, count];    *)
(* the list indices of the source (i, j, i_max, j_max) are kept 0-based,   *)
(* so the source's knowledge[i] is knowledge[i + 1] here.                  *)
(***************************************************************************)
EXTENDS Integers, Sequences, FiniteSets, TLC

\* MinesweeperAI(height, width): the board of the end-to-end scenarios.
Height == 3
Width == 3

\* Number of add_knowledge calls in one behaviour.
MaxCalls == 3
\* Number of mines the board holds at most.
MaxMines == 2

\* Largest count a caller passes when the counts are not the board's.
MaxCount == 2

\* The cells outside the board a caller passes: one above the first row, one
\* past the last row and column.
OutOfRange == {<<-1, 0>>, <<Height, Width>>}

\* The mine layouts the board is drawn from lie in this block of cells.
MineBlock == {<<0, 0>>, <<0, 1>>, <<1, 0>>, <<1, 1>>}

\* Python's None, as returned by make_safe_move and make_random_move.
None == <<-1, -1>>

Cells == (0 .. Height - 1) \X (0 .. Width - 1)

Boards == {b \in SUBSET MineBlock : Cardinality(b) <= MaxMines}

VARIABLES
    board,        \* Minesweeper.mines: the true mine layout
    moves_made,   \* MinesweeperAI.moves_made
    mines,        \* MinesweeperAI.mines
    safes,        \* MinesweeperAI.safes
    knowledge,    \* MinesweeperAI.knowledge
    pc,           \* position inside add_knowledge, "Idle" between calls
    phase,        \* 1: the saturation loop before expansion, 2: the one after
    cell,         \* add_knowledge's argument cell
    count,        \* add_knowledge's argument count
    i,            \* add_knowledge's local i
    j,            \* add_knowledge's local j
    i_max,        \* add_knowledge's local i_max
    j_max,        \* add_knowledge's local j_max
    rem,          \* sentences of the snapshot knowledge.copy() not yet visited
    anyRemovals,  \* remove_empties_and_safes_and_Mines's local
    ret,          \* the value the last make_safe_move or make_random_move
                  \* call returned
    op,           \* the operation called last
    calls,        \* history: the cells passed to add_knowledge, in order
    viaSafe,      \* history: whether calls[k] was a cell make_safe_move could return
    due,          \* history: the differences of the subset pairs the list held
                  \* when the expansion loop began, not appended since
    sweep         \* history: whether every call so far was for the cell
                  \* make_random_move returned

vars == <<board, moves_made, mines, safes, knowledge, pc, phase, cell, count,
          i, j, i_max, j_max, rem, anyRemovals, ret, op, calls, viaSafe, due, sweep>>

locals == <<cell, count, i, j, i_max, j_max>>
history == <<calls, viaSafe, due, sweep>>

----------------------------------------------------------------------------
(* Minesweeper *)

\* The bounds test with <= for <.
InBounds_Inclusive(c) == 0 <= c[1] /\ c[1] <= Height /\ 0 <= c[2] /\ c[2] <= Width

InBounds(c) == 0 <= c[1] /\ c[1] < Height /\ 0 <= c[2] /\ c[2] < Width

\* The positions the two nested range() loops visit around a cell.
ScanPositions(c) == ((c[1] - 1) .. (c[1] + 1)) \X ((c[2] - 1) .. (c[2] + 1))

nearby_mines(b, c) ==
    Cardinality({p \in ScanPositions(c) : p /= c /\ InBounds(p) /\ p \in b})

----------------------------------------------------------------------------
(* Sentence *)

Sentence(cs, n) == [cells |-> cs, count |-> n]

SentenceEq(s, t) == s.cells = t.cells /\ s.count = t.count

\* known_mines with < for ==.
known_mines_StrictTest(s) == IF Cardinality(s.cells) < s.count THEN s.cells ELSE {}

known_mines(s) == IF Cardinality(s.cells) = s.count THEN s.cells ELSE {}

\* known_safes with the test of known_mines.
known_safes_WrongTest(s) == IF Cardinality(s.cells) = s.count THEN s.cells ELSE {}

known_safes(s) == IF s.count = 0 THEN s.cells ELSE {}

\* mark_mine without the test cell in self.cells.
SentenceMarkMine_Unconditional(s, c) ==
    [cells |-> s.cells \ {c}, count |-> s.count - 1]

\* mark_mine without self.count = self.count-1.
SentenceMarkMine_KeepCount(s, c) ==
    IF c \in s.cells THEN [cells |-> s.cells \ {c}, count |-> s.count] ELSE s

SentenceMarkMine(s, c) ==
    IF c \in s.cells THEN Sentence(s.cells \ {c}, s.count - 1) ELSE s

\* mark_safe without self.cells.remove(cell).
SentenceMarkSafe_KeepCell(s, c) == s

\* mark_safe with the decrement of mark_mine.
SentenceMarkSafe_Decrement(s, c) ==
    IF c \in s.cells THEN [cells |-> s.cells \ {c}, count |-> s.count - 1] ELSE s

SentenceMarkSafe(s, c) ==
    IF c \in s.cells THEN Sentence(s.cells \ {c}, s.count) ELSE s

----------------------------------------------------------------------------
(* MinesweeperAI: helpers on the knowledge list *)

\* MinesweeperAI.mark_mine without the loop over self.knowledge.
MarkMineKB_NoCascade(kb, c) == kb

\* for sentence in self.knowledge: sentence.mark_mine(cell)
MarkMineKB(kb, c) == [k \in DOMAIN kb |-> SentenceMarkMine(kb[k], c)]

\* for sentence in self.knowledge: sentence.mark_safe(cell)
MarkSafeKB(kb, c) == [k \in DOMAIN kb |-> SentenceMarkSafe(kb[k], c)]

\* The controller's fields, as one value.
Controller ==
    [moves_made |-> moves_made, mines |-> mines, safes |-> safes,
     knowledge |-> knowledge]

\* MinesweeperAI.mark_mine(cell) on a controller value
mark_mine(st, c) ==
    [st EXCEPT !.mines = @ \cup {c}, !.knowledge = MarkMineKB(@, c)]

\* MinesweeperAI.mark_safe(cell) on a controller value
mark_safe(st, c) ==
    [st EXCEPT !.safes = @ \cup {c}, !.knowledge = MarkSafeKB(@, c)]

\* self.mark_mine(c) for every c of a set of cells
RECURSIVE MarkMinesKB(_, _)
MarkMinesKB(kb, cs) ==
    IF cs = {} THEN kb
    ELSE LET c == CHOOSE x \in cs : TRUE
         IN  MarkMinesKB(MarkMineKB(kb, c), cs \ {c})

\* self.mark_safe(c) for every c of a set of cells
RECURSIVE MarkSafesKB(_, _)
MarkSafesKB(kb, cs) ==
    IF cs = {} THEN kb
    ELSE LET c == CHOOSE x \in cs : TRUE
         IN  MarkSafesKB(MarkSafeKB(kb, c), cs \ {c})

\* list.remove(x): drops the first element that compares equal to x
RemoveFirst(kb, s) ==
    LET k == CHOOSE n \in 1 .. Len(kb) :
                 /\ SentenceEq(kb[n], s)
                 /\ \A m \in 1 .. (n - 1) : ~SentenceEq(kb[m], s)
    IN  [n \in 1 .. (Len(kb) - 1) |-> IF n < k THEN kb[n] ELSE kb[n + 1]]

\* make_safe_move without the test on moves_made.
SafeMoves_IgnoreMovesMade == {c \in safes : c \notin mines}

\* The cells make_safe_move can return.
SafeMoves == {c \in safes : c \notin moves_made /\ c \notin mines}

\* make_random_move without the test on mines.
RandomMove_IgnoreMines ==
    LET free == {c \in Cells : c \notin moves_made}
    IN  IF free = {} THEN None
        ELSE CHOOSE c \in free :
                 \A d \in free : c[1] < d[1] \/ (c[1] = d[1] /\ c[2] <= d[2])

\* make_random_move: the first cell, row by row, that is neither in
\* moves_made nor in mines; None if there is none.
RandomMove ==
    LET free == {c \in Cells : c \notin moves_made /\ c \notin mines}
    IN  IF free = {} THEN None
        ELSE CHOOSE c \in free :
                 \A d \in free : c[1] < d[1] \/ (c[1] = d[1] /\ c[2] <= d[2])

\* The neighbour scan without the test on self.mines.
cell_neighbors_KeepMines(c) ==
    {p \in ScanPositions(c) : p /= c /\ InBounds(p) /\ p \notin moves_made}

\* The neighbour scan of add_knowledge: the new sentence's cells and count.
cell_neighbors(c) ==
    {p \in ScanPositions(c) :
        p /= c /\ InBounds(p) /\ p \notin mines /\ p \notin moves_made}

\* The neighbour scan without cell_count = cell_count-1.
cell_count_NoDecrement(c, n) == n

cell_count(c, n) ==
    n - Cardinality({p \in ScanPositions(c) : p /= c /\ InBounds(p) /\ p \in mines})

\* update_mines_and_safes_in_KB: both loops call sentence.mark_safe
UpdatedKB(kb) == MarkSafesKB(MarkSafesKB(kb, safes), mines)

anyModifications(kb) ==
    \E k \in DOMAIN kb : kb[k].cells \cap (safes \cup mines) /= {}

\* The sentence A - B of every ordered pair of sentences at different list
\* positions with B.cells a proper subset of A.cells.
SubsetDifferences(kb) ==
    {Sentence(kb[q[1]].cells \ kb[q[2]].cells, kb[q[1]].count - kb[q[2]].count) :
        q \in {q \in (DOMAIN kb) \X (DOMAIN kb) :
                        /\ q[1] /= q[2]
                        /\ kb[q[2]].cells \subseteq kb[q[1]].cells
                        /\ kb[q[2]].cells /= kb[q[1]].cells}}

----------------------------------------------------------------------------
(* Initial state: MinesweeperAI.__init__ on a board drawn from Boards *)

Init ==
    /\ board \in Boards
    /\ moves_made = {}
    /\ mines = {}
    /\ safes = {}
    /\ knowledge = <<>>
    /\ pc = "Idle"
    /\ phase = 0
    /\ cell = None
    /\ count = 0
    /\ i = 0
    /\ j = 0
    /\ i_max = 0
    /\ j_max = 0
    /\ rem = 0
    /\ anyRemovals = FALSE
    /\ ret = None
    /\ op = "init"
    /\ calls = <<>>
    /\ viaSafe = <<>>
    /\ due = {}
    /\ sweep = TRUE

----------------------------------------------------------------------------
(* add_knowledge *)

\* add_knowledge without self.mark_safe(cell).
AddKnowledge_NoMarkSafe(c) ==
    /\ pc = "Idle"
    /\ Len(calls) < MaxCalls \/ (sweep /\ c = RandomMove)
    /\ c \in Cells \ board
    /\ moves_made' = moves_made \cup {c}
    /\ cell' = c
    /\ count' = nearby_mines(board, c)
    /\ pc' = "Recording"
    /\ op' = "add_knowledge"
    /\ ret' = None
    /\ calls' = Append(calls, c)
    /\ viaSafe' = Append(viaSafe, c \in SafeMoves)
    /\ sweep' = (sweep /\ c = RandomMove)
    /\ UNCHANGED <<board, mines, safes, knowledge, phase, i, j, i_max, j_max, rem,
                   anyRemovals, due>>

\* The call, with self.moves_made.add(cell) and self.mark_safe(cell). Calls
\* past MaxCalls are followed along the sweep make_random_move dictates.
AddKnowledge(c) ==
    /\ pc = "Idle"
    /\ Len(calls) < MaxCalls \/ (sweep /\ c = RandomMove)
    /\ c \in Cells \ board
    /\ moves_made' = moves_made \cup {c}
    /\ safes' = safes \cup {c}
    /\ knowledge' = MarkSafeKB(knowledge, c)
    /\ cell' = c
    /\ count' = nearby_mines(board, c)
    /\ pc' = "Recording"
    /\ op' = "add_knowledge"
    /\ ret' = None
    /\ calls' = Append(calls, c)
    /\ viaSafe' = Append(viaSafe, c \in SafeMoves)
    /\ sweep' = (sweep /\ c = RandomMove)
    /\ UNCHANGED <<board, mines, phase, i, j, i_max, j_max, rem, anyRemovals, due>>

\* The same call from a caller that passes any cell, on the board or not, and
\* any count.
AddKnowledgeAny(c, n) ==
    /\ pc = "Idle"
    /\ Len(calls) < MaxCalls
    /\ moves_made' = moves_made \cup {c}
    /\ safes' = safes \cup {c}
    /\ knowledge' = MarkSafeKB(knowledge, c)
    /\ cell' = c
    /\ count' = n
    /\ pc' = "Recording"
    /\ op' = "add_knowledge"
    /\ ret' = None
    /\ calls' = Append(calls, c)
    /\ viaSafe' = Append(viaSafe, c \in SafeMoves)
    /\ sweep' = (sweep /\ c = RandomMove)
    /\ UNCHANGED <<board, mines, phase, i, j, i_max, j_max, rem, anyRemovals, due>>

\* The neighbour scan and self.knowledge.append(sentence_i); the loop
\* variables i and j are left at the last value of their range().
InsertSentence ==
    /\ pc = "Recording"
    /\ knowledge' = Append(knowledge,
                           Sentence(cell_neighbors(cell), cell_count(cell, count)))
    /\ i' = cell[1] + 1
    /\ j' = cell[2] + 1
    /\ pc' = "Remove"
    /\ phase' = 1
    /\ rem' = Len(knowledge')
    /\ anyRemovals' = FALSE
    /\ UNCHANGED <<board, moves_made, mines, safes, cell, count, i_max, j_max,
                   ret, op, history>>

\* The sentence the for loop of remove_empties_and_safes_and_Mines is at: the
\* unvisited sentences of the snapshot are the last rem sentences of the list.
Current == Len(knowledge) - rem + 1

RemoveEmpty ==
    /\ pc = "Remove"
    /\ rem > 0
    /\ knowledge[Current].cells = {}
    /\ anyRemovals' = TRUE
    /\ knowledge' = RemoveFirst(knowledge, knowledge[Current])
    /\ rem' = rem - 1
    /\ UNCHANGED <<board, moves_made, mines, safes, pc, phase, locals, ret, op,
                   history>>

RemoveKnownMines ==
    /\ pc = "Remove"
    /\ rem > 0
    /\ knowledge[Current].cells /= {}
    /\ known_mines(knowledge[Current]) /= {}
    /\ anyRemovals' = TRUE
    /\ LET confirmed == known_mines(knowledge[Current])
           marked == MarkMinesKB(knowledge, confirmed)
       IN  /\ mines' = mines \cup confirmed
           /\ knowledge' = RemoveFirst(marked, marked[Current])
    /\ rem' = rem - 1
    /\ UNCHANGED <<board, moves_made, safes, pc, phase, locals, ret, op, history>>

RemoveKnownSafes ==
    /\ pc = "Remove"
    /\ rem > 0
    /\ knowledge[Current].cells /= {}
    /\ known_mines(knowledge[Current]) = {}
    /\ known_safes(knowledge[Current]) /= {}
    /\ anyRemovals' = TRUE
    /\ LET confirmed == known_safes(knowledge[Current])
           marked == MarkSafesKB(knowledge, confirmed)
       IN  /\ safes' = safes \cup confirmed
           /\ knowledge' = RemoveFirst(marked, marked[Current])
    /\ rem' = rem - 1
    /\ UNCHANGED <<board, moves_made, mines, pc, phase, locals, ret, op, history>>

RemoveKeep ==
    /\ pc = "Remove"
    /\ rem > 0
    /\ knowledge[Current].cells /= {}
    /\ known_mines(knowledge[Current]) = {}
    /\ known_safes(knowledge[Current]) = {}
    /\ rem' = rem - 1
    /\ UNCHANGED <<board, moves_made, mines, safes, knowledge, pc, phase, locals,
                   anyRemovals, ret, op, history>>

\* remove_empties_and_safes_and_Mines returned True: the while loop calls it
\* again without calling update_mines_and_safes_in_KB.
RemoveAgain ==
    /\ pc = "Remove"
    /\ rem = 0
    /\ anyRemovals
    /\ rem' = Len(knowledge)
    /\ anyRemovals' = FALSE
    /\ UNCHANGED <<board, moves_made, mines, safes, knowledge, pc, phase, locals,
                   ret, op, history>>

\* remove_empties_and_safes_and_Mines returned False.
RemoveDone ==
    /\ pc = "Remove"
    /\ rem = 0
    /\ ~anyRemovals
    /\ pc' = "Update"
    /\ UNCHANGED <<board, moves_made, mines, safes, knowledge, phase, locals, rem,
                   anyRemovals, ret, op, history>>

\* update_mines_and_safes_in_KB returned True: the while loop goes round.
UpdateChanged ==
    /\ pc = "Update"
    /\ anyModifications(knowledge)
    /\ knowledge' = UpdatedKB(knowledge)
    /\ pc' = "Remove"
    /\ rem' = Len(knowledge)
    /\ anyRemovals' = FALSE
    /\ UNCHANGED <<board, moves_made, mines, safes, phase, locals, ret, op, history>>

\* update_mines_and_safes_in_KB returned False after the first loop: on to
\* i_max = len(self.knowledge).
UpdateToExpand ==
    /\ pc = "Update"
    /\ phase = 1
    /\ ~anyModifications(knowledge)
    /\ knowledge' = UpdatedKB(knowledge)
    /\ i_max' = Len(knowledge)
    /\ pc' = "ExpandOuter"
    /\ due' = SubsetDifferences(knowledge)
    /\ UNCHANGED <<board, moves_made, mines, safes, phase, cell, count, i, j, j_max,
                   rem, anyRemovals, ret, op, calls, viaSafe, sweep>>

\* update_mines_and_safes_in_KB returned False after the second loop:
\* add_knowledge returns.
UpdateToReturn ==
    /\ pc = "Update"
    /\ phase = 2
    /\ ~anyModifications(knowledge)
    /\ knowledge' = UpdatedKB(knowledge)
    /\ pc' = "Idle"
    /\ phase' = 0
    /\ cell' = None
    /\ count' = 0
    /\ i' = 0
    /\ j' = 0
    /\ i_max' = 0
    /\ j_max' = 0
    /\ due' = {}
    /\ UNCHANGED <<board, moves_made, mines, safes, rem, anyRemovals, ret, op,
                   calls, viaSafe, sweep>>

\* while i < i_max: j_max = len(self.knowledge)
ExpandOuter ==
    /\ pc = "ExpandOuter"
    /\ i < i_max
    /\ j_max' = Len(knowledge)
    /\ pc' = "ExpandInner"
    /\ UNCHANGED <<board, moves_made, mines, safes, knowledge, phase, cell, count,
                   i, j, i_max, rem, anyRemovals, ret, op, history>>

\* The outer while loop ends: on to the second saturation loop.
ExpandDone ==
    /\ pc = "ExpandOuter"
    /\ ~(i < i_max)
    /\ pc' = "Remove"
    /\ phase' = 2
    /\ rem' = Len(knowledge)
    /\ anyRemovals' = FALSE
    /\ UNCHANGED <<board, moves_made, mines, safes, knowledge, locals, ret, op,
                   history>>

\* if (i == j): continue, with the j += 1 left out
ExpandSkipSame_NoIncrement ==
    /\ pc = "ExpandInner"
    /\ j < j_max
    /\ i = j
    /\ j' = j
    /\ UNCHANGED <<board, moves_made, mines, safes, knowledge, pc, phase, cell,
                   count, i, i_max, j_max, rem, anyRemovals, ret, op, history>>

\* if (i == j): j += 1; continue
ExpandSkipSame ==
    /\ pc = "ExpandInner"
    /\ j < j_max
    /\ i = j
    /\ j' = j + 1
    /\ UNCHANGED <<board, moves_made, mines, safes, knowledge, pc, phase, cell,
                   count, i, i_max, j_max, rem, anyRemovals, ret, op, history>>

\* if(self.knowledge[i] == self.knowledge[j]): remove, adjust the indices
ExpandRemoveDuplicate ==
    /\ pc = "ExpandInner"
    /\ j < j_max
    /\ i /= j
    /\ SentenceEq(knowledge[i + 1], knowledge[j + 1])
    /\ knowledge' = RemoveFirst(knowledge, knowledge[j + 1])
    /\ i_max' = i_max - 1
    /\ j_max' = j_max - 1
    /\ i' = IF j < i THEN i - 1 ELSE i
    /\ UNCHANGED <<board, moves_made, mines, safes, pc, phase, cell, count, j, rem,
                   anyRemovals, ret, op, history>>

\* if self.knowledge[j].cells < self.knowledge[i].cells: append the difference
ExpandSubset ==
    /\ pc = "ExpandInner"
    /\ j < j_max
    /\ i /= j
    /\ ~SentenceEq(knowledge[i + 1], knowledge[j + 1])
    /\ knowledge[j + 1].cells \subseteq knowledge[i + 1].cells
    /\ knowledge[j + 1].cells /= knowledge[i + 1].cells
    /\ LET new_set == knowledge[i + 1].cells \ knowledge[j + 1].cells
           new_count == knowledge[i + 1].count - knowledge[j + 1].count
       IN  /\ knowledge' = Append(knowledge, Sentence(new_set, new_count))
           /\ due' = due \ {Sentence(new_set, new_count)}
    /\ j' = j + 1
    /\ UNCHANGED <<board, moves_made, mines, safes, pc, phase, cell, count, i,
                   i_max, j_max, rem, anyRemovals, ret, op, calls, viaSafe, sweep>>

\* Neither equal nor a proper subset: j += 1
ExpandNext ==
    /\ pc = "ExpandInner"
    /\ j < j_max
    /\ i /= j
    /\ ~SentenceEq(knowledge[i + 1], knowledge[j + 1])
    /\ ~(/\ knowledge[j + 1].cells \subseteq knowledge[i + 1].cells
         /\ knowledge[j + 1].cells /= knowledge[i + 1].cells)
    /\ j' = j + 1
    /\ UNCHANGED <<board, moves_made, mines, safes, knowledge, pc, phase, cell,
                   count, i, i_max, j_max, rem, anyRemovals, ret, op, history>>

\* The inner while loop ends: i += 1 (j keeps its value)
ExpandInnerDone ==
    /\ pc = "ExpandInner"
    /\ ~(j < j_max)
    /\ i' = i + 1
    /\ pc' = "ExpandOuter"
    /\ UNCHANGED <<board, moves_made, mines, safes, knowledge, phase, cell, count,
                   j, i_max, j_max, rem, anyRemovals, ret, op, history>>

----------------------------------------------------------------------------
(* make_safe_move: the first cell of self.safes, in the set's iteration     *)
(* order, that is neither in moves_made nor in mines; None if there is none *)

MakeSafeMove ==
    /\ pc = "Idle"
    /\ IF SafeMoves /= {} THEN ret' \in SafeMoves ELSE ret' = None
    /\ op' = "make_safe_move"
    /\ UNCHANGED <<board, moves_made, mines, safes, knowledge, pc, phase, locals,
                   rem, anyRemovals, history>>

----------------------------------------------------------------------------
(* make_random_move *)

MakeRandomMove ==
    /\ pc = "Idle"
    /\ ret' = RandomMove
    /\ op' = "make_random_move"
    /\ UNCHANGED <<board, moves_made, mines, safes, knowledge, pc, phase, locals,
                   rem, anyRemovals, history>>

----------------------------------------------------------------------------

\* The steps of add_knowledge after the call.
Step ==
    \/ InsertSentence
    \/ RemoveEmpty
    \/ RemoveKnownMines
    \/ RemoveKnownSafes
    \/ RemoveKeep
    \/ RemoveAgain
    \/ RemoveDone
    \/ UpdateChanged
    \/ UpdateToExpand
    \/ UpdateToReturn
    \/ ExpandOuter
    \/ ExpandDone
    \/ ExpandSkipSame
    \/ ExpandRemoveDuplicate
    \/ ExpandSubset
    \/ ExpandNext
    \/ ExpandInnerDone

Next ==
    \/ \E c \in Cells : AddKnowledge(c)
    \/ InsertSentence
    \/ RemoveEmpty
    \/ RemoveKnownMines
    \/ RemoveKnownSafes
    \/ RemoveKeep
    \/ RemoveAgain
    \/ RemoveDone
    \/ UpdateChanged
    \/ UpdateToExpand
    \/ UpdateToReturn
    \/ ExpandOuter
    \/ ExpandDone
    \/ ExpandSkipSame
    \/ ExpandRemoveDuplicate
    \/ ExpandSubset
    \/ ExpandNext
    \/ ExpandInnerDone
    \/ MakeSafeMove
    \/ MakeRandomMove

\* The controller driven with the board's own observations.
Spec == Init /\ [][Next]_vars

\* The same, with a call that has started running on: add_knowledge is
\* straight-line code on one thread, so a step of it that can be taken is taken.
SpecLive == Init /\ [][Next]_vars /\ WF_vars(Step)

\* The controller driven by a caller whose cells and counts are unchecked; the
\* board plays no part.
InitAny == Init /\ board = {}

NextAny ==
    \/ \E c \in Cells \cup OutOfRange : \E n \in 0 .. MaxCount : AddKnowledgeAny(c, n)
    \/ Step
    \/ MakeSafeMove
    \/ MakeRandomMove

SpecAny == InitAny /\ [][NextAny]_vars

----------------------------------------------------------------------------
(* Properties *)

\* add_knowledge has returned at least once and the controller is between calls.
Returned == pc = "Idle" /\ Len(calls) >= 1

\* The 8-neighbourhood of a cell, clipped to the board.
Neighbourhood(c) ==
    {p \in Cells : /\ p /= c
                   /\ p[1] - c[1] \in {-1, 0, 1}
                   /\ p[2] - c[2] \in {-1, 0, 1}}

\* C1: in every reachable state, between the steps of add_knowledge too, no
\* cell is both in mines and in safes.
C1_MinesSafesDisjoint == mines \cap safes = {}

C1_Witness ==
    /\ pc = "Remove"
    /\ mines /= {}
    /\ safes \ moves_made /= {}
    /\ Len(knowledge) >= 1

\* C2: every cell of mines is a mine of the board, no cell of safes is one,
\* and a cell make_safe_move returned is not a mine of the board.
C2_Sound ==
    /\ mines \subseteq board
    /\ safes \cap board = {}
    /\ (op = "make_safe_move" /\ ret /= None => ret \notin board)

C2_Witness ==
    /\ op = "make_safe_move"
    /\ ret /= None
    /\ mines /= {}
    /\ board \ mines /= {}

\* C3: every sentence of the knowledge list has 0 <= count <= |cells|, in
\* every reachable state.
C3_CountInRange ==
    \A k \in DOMAIN knowledge :
        /\ 0 <= knowledge[k].count
        /\ knowledge[k].count <= Cardinality(knowledge[k].cells)

C3_Witness ==
    /\ pc = "Remove"
    /\ phase = 2
    /\ mines /= {}
    /\ \E k \in DOMAIN knowledge :
           knowledge[k].count >= 1 /\ Cardinality(knowledge[k].cells) >= 2

\* C4: when the expansion loop of an add_knowledge call has ended, the
\* difference (A.cells - B.cells, A.count - B.count) of every pair of
\* sentences A, B that the list held when the loop began, with B.cells a
\* proper subset of A.cells, has been appended.
C4_AllSubsetPairsExpanded == phase = 2 => due = {}

\* C5: when add_knowledge returns, no two sentences of the knowledge list
\* are structurally equal, also when no cell was passed to it twice.
C5_NoDuplicates ==
    (/\ Returned
     /\ \A a, b \in DOMAIN calls : a /= b => calls[a] /= calls[b])
    => \A a, b \in DOMAIN knowledge :
           a /= b => ~(/\ knowledge[a].cells = knowledge[b].cells
                       /\ knowledge[a].count = knowledge[b].count)

\* C6: when add_knowledge returns, no sentence of the knowledge list is empty,
\* none has count 0 or count |cells|, and none holds a cell of mines or safes.
C6_SaturatedAtReturn ==
    Returned =>
        \A k \in DOMAIN knowledge :
            /\ knowledge[k].cells /= {}
            /\ knowledge[k].count /= 0
            /\ knowledge[k].count /= Cardinality(knowledge[k].cells)
            /\ knowledge[k].cells \cap (mines \cup safes) = {}

C6_Witness ==
    /\ Returned
    /\ Len(knowledge) >= 2
    /\ mines /= {}
    /\ safes \ moves_made /= {}

\* C7: on the board whose only mine is (0,0), after add_knowledge((1,1), 1),
\* add_knowledge((0,1), 1) and add_knowledge for the cells make_safe_move
\* returns, once make_safe_move returns None the cell (0,0) is in mines, and
\* it is not in moves_made.
C7_CornerMineResolved ==
    (/\ board = {<<0, 0>>}
     /\ pc = "Idle"
     /\ Len(calls) >= 2
     /\ calls[1] = <<1, 1>>
     /\ calls[2] = <<0, 1>>
     /\ \A k \in 3 .. Len(calls) : viaSafe[k]
     /\ safes \ (moves_made \cup mines) = {})
    => (<<0, 0>> \in mines /\ <<0, 0>> \notin moves_made)

\* C8 as stated: on the board whose only mine is (0,0), after the single call
\* add_knowledge((2,2), 0) all 8 other cells are in safes and (0,0) is not.
C8_AllEightSafe ==
    (/\ board = {<<0, 0>>}
     /\ pc = "Idle"
     /\ calls = << <<2, 2>> >>)
    => (Cells \ {<<0, 0>>} \subseteq safes /\ <<0, 0>> \notin safes)

\* C8 as amended: on the board whose only mine is (0,0), after the single call
\* add_knowledge((2,2), 0) safes is exactly (2,2) and its three neighbours
\* (1,1), (1,2), (2,1); (0,0) is not in safes then or in any later state.
C8_RevealedAndNeighboursSafe ==
    (/\ board = {<<0, 0>>}
     /\ Len(calls) >= 1
     /\ calls[1] = <<2, 2>>)
    => /\ <<0, 0>> \notin safes
       /\ (pc = "Idle" /\ Len(calls) = 1)
              => safes = {<<2, 2>>, <<1, 1>>, <<1, 2>>, <<2, 1>>}

C8_Witness ==
    /\ board = {<<0, 0>>}
    /\ pc = "Idle"
    /\ calls = << <<2, 2>> >>
    /\ knowledge = <<>>

\* C9: add_knowledge appends exactly the sentence whose cells are the in-bounds
\* neighbours of cell that are neither in mines nor in moves_made, and whose
\* count is count less the number of in-bounds neighbours in mines.
C9_InsertedSentence ==
    [][pc = "Recording" =>
          knowledge' = Append(knowledge,
                              [cells |-> Neighbourhood(cell) \ (mines \cup moves_made),
                               count |-> count - Cardinality(Neighbourhood(cell) \cap mines)])]_vars

C9_Witness ==
    /\ pc = "Remove"
    /\ phase = 1
    /\ rem = Len(knowledge)
    /\ ~anyRemovals
    /\ Len(knowledge) >= 2
    /\ Neighbourhood(cell) \cap mines /= {}
    /\ (Neighbourhood(cell) \cap moves_made) \ mines /= {}
    /\ knowledge[Len(knowledge)] =
           [cells |-> Neighbourhood(cell) \ (mines \cup moves_made),
            count |-> count - Cardinality(Neighbourhood(cell) \cap mines)]
    /\ knowledge[Len(knowledge)].cells /= {}

\* C10: make_safe_move returns a cell of safes that is neither in moves_made
\* nor in mines when there is one and None when there is none, and changes
\* none of moves_made, mines, safes and the knowledge list.
C10_SafeMoveQuery ==
    [][op' = "make_safe_move" =>
          /\ IF safes \ (moves_made \cup mines) /= {}
             THEN ret' \in safes /\ ret' \notin moves_made /\ ret' \notin mines
             ELSE ret' = None
          /\ UNCHANGED <<moves_made, mines, safes, knowledge>>]_vars

C10_Witness ==
    /\ op = "make_safe_move"
    /\ ret \in safes
    /\ moves_made /= {}
    /\ safes \ moves_made /= {ret}

\* C11: make_random_move returns a cell of the board that is neither in
\* moves_made nor in mines when there is one, None exactly when moves_made and
\* mines cover the board, and changes none of the controller's fields.
C11_RandomMoveQuery ==
    [][op' = "make_random_move" =>
          /\ IF Cells \ (moves_made \cup mines) /= {}
             THEN ret' \in Cells /\ ret' \notin moves_made /\ ret' \notin mines
             ELSE ret' = None
          /\ UNCHANGED <<moves_made, mines, safes, knowledge>>]_vars

C11_Witness ==
    /\ op = "make_random_move"
    /\ ret = None
    /\ moves_made \cup mines = Cells
    /\ mines /= {}

\* C12: in every reachable controller state and for every cell, a second
\* mark_safe(cell) changes nothing the first one left, and likewise a second
\* mark_mine(cell): no count is decremented again.
C12_MarksIdempotent ==
    [](\A c \in Cells :
          LET safe == mark_safe(Controller, c)
              mine == mark_mine(Controller, c)
          IN  /\ mark_safe(safe, c) = safe
              /\ mark_mine(mine, c) = mine)

C12_Witness ==
    /\ pc = "Idle"
    /\ \E k \in DOMAIN knowledge : \E c \in knowledge[k].cells :
           /\ knowledge[k].count >= 1
           /\ mark_mine(Controller, c).knowledge[k].count = knowledge[k].count - 1
           /\ mark_mine(mark_mine(Controller, c), c).knowledge[k].count
                  = knowledge[k].count - 1
           /\ mark_safe(Controller, c) /= Controller

\* C15: when add_knowledge returns, every cell of moves_made is in safes.
C15_MovesMadeSafe == Returned => moves_made \subseteq safes

C15_Witness ==
    /\ Returned
    /\ Cardinality(moves_made) >= 2
    /\ safes \ moves_made /= {}
    /\ knowledge /= <<>>

\* C16: on every sentence of every reachable knowledge list and for every cell,
\* Sentence.mark_mine removes the cell and lowers count by exactly one when the
\* cell is in the sentence and changes nothing otherwise; Sentence.mark_safe
\* removes the cell when present and keeps count; a sentence that does not
\* hold the cell is left as it was, and so are the controller's sets.
C16_SentenceMarks ==
    [](\A c \in Cells :
          /\ DOMAIN MarkMineKB(knowledge, c) = DOMAIN knowledge
          /\ DOMAIN MarkSafeKB(knowledge, c) = DOMAIN knowledge
          /\ \A k \in DOMAIN knowledge :
                 LET s == knowledge[k]
                 IN  IF c \in s.cells
                     THEN /\ SentenceMarkMine(s, c) =
                                 [cells |-> s.cells \ {c}, count |-> s.count - 1]
                          /\ SentenceMarkSafe(s, c) =
                                 [cells |-> s.cells \ {c}, count |-> s.count]
                     ELSE /\ SentenceMarkMine(s, c) = s
                          /\ SentenceMarkSafe(s, c) = s
          /\ LET mine == mark_mine(Controller, c)
                 safe == mark_safe(Controller, c)
             IN  /\ mine.moves_made = moves_made
                 /\ mine.safes = safes
                 /\ safe.moves_made = moves_made
                 /\ safe.mines = mines)

C16_Witness ==
    /\ Len(knowledge) >= 2
    /\ \E c \in Cells :
           /\ c \in knowledge[1].cells
           /\ c \notin knowledge[2].cells
           /\ knowledge[2].cells /= {}
           /\ MarkMineKB(knowledge, c)[1].count = knowledge[1].count - 1
           /\ MarkMineKB(knowledge, c)[2] = knowledge[2]

\* C18: in every reachable state every sentence of the knowledge list is true
\* of the board: exactly count of its cells are mines of the board.
C18_SentencesTrue ==
    \A k \in DOMAIN knowledge :
        knowledge[k].count = Cardinality(knowledge[k].cells \cap board)

C18_Witness ==
    /\ pc = "Remove"
    /\ phase = 2
    /\ Len(knowledge) > i_max
    /\ knowledge[Len(knowledge)].count >= 1
    /\ Cardinality(knowledge[Len(knowledge)].cells) >= 2

\* C19: no sentence of the knowledge list ever holds a cell of mines, so the
\* mark_safe call on mines in update_mines_and_safes_in_KB finds none; and in
\* every step that adds cells to mines, each sentence that stays in the list
\* loses those cells with its count lowered by one for each of them.
C19_MinesLeaveWithDecrement ==
    /\ [](\A k \in DOMAIN knowledge : knowledge[k].cells \cap mines = {})
    /\ [][mines' /= mines =>
              \A n \in DOMAIN knowledge' : \E k \in DOMAIN knowledge :
                  /\ knowledge'[n].cells = knowledge[k].cells \ (mines' \ mines)
                  /\ knowledge'[n].count =
                         knowledge[k].count
                         - Cardinality(knowledge[k].cells \cap (mines' \ mines))]_vars

C19_Witness ==
    /\ pc = "Remove"
    /\ anyRemovals
    /\ mines /= {}
    /\ \E k \in DOMAIN knowledge :
           /\ knowledge[k].count = 0
           /\ knowledge[k].cells /= {}
           /\ \E m \in mines : m \in Neighbourhood(CHOOSE x \in knowledge[k].cells : TRUE)

----------------------------------------------------------------------------
(* add_knowledge as a function of the controller: the same code, written as *)
(* one step function on a record of the fields and the call's locals, so    *)
(* that the results of two calls can be compared in one state               *)

\* The fields and the locals of the running call, as one value.
Frame ==
    [moves_made |-> moves_made, mines |-> mines, safes |-> safes,
     knowledge |-> knowledge, pc |-> pc, phase |-> phase, cell |-> cell,
     count |-> count, i |-> i, j |-> j, i_max |-> i_max, j_max |-> j_max,
     rem |-> rem, anyRemovals |-> anyRemovals]

\* MinesweeperAI.__init__
InitFrame ==
    [moves_made |-> {}, mines |-> {}, safes |-> {}, knowledge |-> <<>>,
     pc |-> "Idle", phase |-> 0, cell |-> None, count |-> 0, i |-> 0, j |-> 0,
     i_max |-> 0, j_max |-> 0, rem |-> 0, anyRemovals |-> FALSE]

\* self.moves_made.add(cell); self.mark_safe(cell)
add_knowledge_call(st, c, n) ==
    [st EXCEPT !.moves_made = @ \cup {c},
               !.safes = @ \cup {c},
               !.knowledge = MarkSafeKB(@, c),
               !.cell = c,
               !.count = n,
               !.pc = "Recording"]

\* The neighbour scan and self.knowledge.append(sentence_i)
add_knowledge_record(st) ==
    LET around == {p \in ScanPositions(st.cell) : p /= st.cell /\ InBounds(p)}
        cells == {p \in around : p \notin st.mines /\ p \notin st.moves_made}
        n == st.count - Cardinality({p \in around : p \in st.mines})
    IN  [st EXCEPT !.knowledge = Append(@, Sentence(cells, n)),
                   !.i = st.cell[1] + 1,
                   !.j = st.cell[2] + 1,
                   !.pc = "Remove",
                   !.phase = 1,
                   !.rem = Len(st.knowledge) + 1,
                   !.anyRemovals = FALSE]

\* One iteration of the for loop of remove_empties_and_safes_and_Mines, or
\* its return to the while loop.
remove_step(st) ==
    LET kb == st.knowledge
        at == Len(kb) - st.rem + 1
    IN  IF st.rem = 0
        THEN IF st.anyRemovals
             THEN [st EXCEPT !.rem = Len(kb), !.anyRemovals = FALSE]
             ELSE [st EXCEPT !.pc = "Update"]
        ELSE IF kb[at].cells = {}
        THEN [st EXCEPT !.anyRemovals = TRUE,
                        !.knowledge = RemoveFirst(kb, kb[at]),
                        !.rem = @ - 1]
        ELSE IF known_mines(kb[at]) /= {}
        THEN LET marked == MarkMinesKB(kb, known_mines(kb[at]))
             IN  [st EXCEPT !.anyRemovals = TRUE,
                            !.mines = @ \cup known_mines(kb[at]),
                            !.knowledge = RemoveFirst(marked, marked[at]),
                            !.rem = @ - 1]
        ELSE IF known_safes(kb[at]) /= {}
        THEN LET marked == MarkSafesKB(kb, known_safes(kb[at]))
             IN  [st EXCEPT !.anyRemovals = TRUE,
                            !.safes = @ \cup known_safes(kb[at]),
                            !.knowledge = RemoveFirst(marked, marked[at]),
                            !.rem = @ - 1]
        ELSE [st EXCEPT !.rem = @ - 1]

\* update_mines_and_safes_in_KB and what the while loop does with its result.
update_step(st) ==
    LET kb == st.knowledge
        changed == \E k \in DOMAIN kb : kb[k].cells \cap (st.safes \cup st.mines) /= {}
        updated == MarkSafesKB(MarkSafesKB(kb, st.safes), st.mines)
    IN  IF changed
        THEN [st EXCEPT !.knowledge = updated,
                        !.pc = "Remove",
                        !.rem = Len(kb),
                        !.anyRemovals = FALSE]
        ELSE IF st.phase = 1
        THEN [st EXCEPT !.knowledge = updated,
                        !.i_max = Len(kb),
                        !.pc = "ExpandOuter"]
        ELSE [st EXCEPT !.knowledge = updated,
                        !.pc = "Idle", !.phase = 0, !.cell = None, !.count = 0,
                        !.i = 0, !.j = 0, !.i_max = 0, !.j_max = 0]

\* One test of while i < i_max, or one iteration of while j < j_max.
expand_step(st) ==
    LET kb == st.knowledge
    IN  IF st.pc = "ExpandOuter"
        THEN IF st.i < st.i_max
             THEN [st EXCEPT !.j_max = Len(kb), !.pc = "ExpandInner"]
             ELSE [st EXCEPT !.pc = "Remove", !.phase = 2, !.rem = Len(kb),
                             !.anyRemovals = FALSE]
        ELSE IF ~(st.j < st.j_max)
        THEN [st EXCEPT !.i = @ + 1, !.pc = "ExpandOuter"]
        ELSE IF st.i = st.j
        THEN [st EXCEPT !.j = @ + 1]
        ELSE IF SentenceEq(kb[st.i + 1], kb[st.j + 1])
        THEN [st EXCEPT !.knowledge = RemoveFirst(kb, kb[st.j + 1]),
                        !.i_max = @ - 1,
                        !.j_max = @ - 1,
                        !.i = IF st.j < st.i THEN st.i - 1 ELSE st.i]
        ELSE IF /\ kb[st.j + 1].cells \subseteq kb[st.i + 1].cells
                /\ kb[st.j + 1].cells /= kb[st.i + 1].cells
        THEN [st EXCEPT !.knowledge =
                            Append(kb, Sentence(kb[st.i + 1].cells \ kb[st.j + 1].cells,
                                                kb[st.i + 1].count - kb[st.j + 1].count)),
                        !.j = @ + 1]
        ELSE [st EXCEPT !.j = @ + 1]

\* One step of a running add_knowledge.
add_knowledge_step(st) ==
    CASE st.pc = "Recording" -> add_knowledge_record(st)
      [] st.pc = "Remove" -> remove_step(st)
      [] st.pc = "Update" -> update_step(st)
      [] st.pc \in {"ExpandOuter", "ExpandInner"} -> expand_step(st)
      [] OTHER -> st

\* The call run to its return.
RECURSIVE add_knowledge_run(_)
add_knowledge_run(st) ==
    IF st.pc = "Idle" THEN st ELSE add_knowledge_run(add_knowledge_step(st))

\* add_knowledge(cell, count) on a controller at rest: the controller at the
\* return.
add_knowledge(st, c, n) == add_knowledge_run(add_knowledge_call(st, c, n))

\* The controller after the calls cs, in this order, on the board b.
RECURSIVE Replay(_, _)
Replay(b, cs) ==
    IF cs = <<>> THEN InitFrame
    ELSE LET c == cs[Len(cs)]
         IN  add_knowledge(Replay(b, SubSeq(cs, 1, Len(cs) - 1)), c, nearby_mines(b, c))

\* The step function takes the steps the actions take.
StepFunctionAgrees ==
    [][/\ (pc /= "Idle" => Frame' = add_knowledge_step(Frame))
       /\ (pc = "Idle" /\ pc' = "Recording" =>
               Frame' = add_knowledge_call(Frame, cell', count'))]_vars

\* A controller at rest is the replay of its calls.
ReplayAgrees == pc = "Idle" => Frame = Replay(board, calls)

\* Two lists hold the same sentences, each as often, in any order.
IsPermutation(s, t) ==
    /\ Len(s) = Len(t)
    /\ \E f \in Permutations(DOMAIN s) : \A k \in DOMAIN s : t[k] = s[f[k]]

\* The sentences of a list, as a set.
SentenceSet(kb) == {kb[k] : k \in DOMAIN kb}

\* C13: add_knowledge does not return with a sentence in the knowledge list
\* whose count is negative or larger than its number of cells, whatever the
\* counts it was given.
C13_NoBadSentenceAtReturn ==
    Returned =>
        \A k \in DOMAIN knowledge :
            /\ 0 <= knowledge[k].count
            /\ knowledge[k].count <= Cardinality(knowledge[k].cells)

\* C14: add_knowledge called with a cell outside the board stops at once and
\* changes none of moves_made, mines, safes and the knowledge list.
C14_OutOfRangeRejected ==
    [][(pc = "Idle" /\ op' = "add_knowledge" /\ cell' \notin Cells) =>
          (pc' = "Idle" /\ UNCHANGED <<moves_made, mines, safes, knowledge>>)]_vars

\* C17: every add_knowledge call returns (the controller gets back to Idle),
\* and the expansion loop never reads the knowledge list past its end.
C17_Terminates ==
    /\ [](pc = "ExpandInner" /\ j < j_max =>
            /\ i + 1 \in DOMAIN knowledge
            /\ j + 1 \in DOMAIN knowledge)
    /\ (pc /= "Idle") ~> (pc = "Idle")

\* The outer expansion loop ends on a list that grew while it was iterated.
C17_Witness ==
    /\ pc = "ExpandOuter"
    /\ ~(i < i_max)
    /\ i > 0
    /\ Len(knowledge) > i_max

\* C20: when the same calls made in another order leave a controller that
\* differs from this one only by a permutation of the knowledge list, every
\* next add_knowledge call gives both the same mines, safes and set of
\* sentences.
C20_OrderIndependent ==
    pc = "Idle" /\ Len(calls) <= MaxCalls =>
        \A f \in Permutations(DOMAIN calls) :
            LET other == Replay(board, [k \in DOMAIN calls |-> calls[f[k]]])
            IN  /\ other.moves_made = moves_made
                /\ other.mines = mines
                /\ other.safes = safes
                /\ IsPermutation(other.knowledge, knowledge)
                => \A c \in Cells \ board :
                       LET a == add_knowledge(Frame, c, nearby_mines(board, c))
                           b == add_knowledge(other, c, nearby_mines(board, c))
                       IN  /\ a.mines = b.mines
                           /\ a.safes = b.safes
                           /\ SentenceSet(a.knowledge) = SentenceSet(b.knowledge)

====
